---------------------------- MODULE Spec2Model ----------------------------
(***************************************************************************)
(* Van der Pauw measurement of physicslab: the Geometry enum, the          *)
(* Measurement aggregator, the Solve class and the process bundle          *)
(* (physicslab/experiment/van_der_pauw.py, physicslab/utility.py,          *)
(* physicslab/electricity.py).                                             *)
(*                                                                         *)
(* A Python str is a sequence of one-character strings; a raised exception *)
(* is the record [raised |-> <exception class>]; None is a record of its   *)
(* own.                                                                    *)
(***************************************************************************)
EXTENDS Integers, Sequences, FiniteSets, TLC

VARIABLES
    self,   \* the Geometry member the instance methods are called on
    data,   \* the caller's DataFrame: [index |-> row count, columns |-> column name -> values]
    means,  \* (Rh, Rv) as the last Measurement.analyze returned it, or None
    newton, \* what scipy.optimize.newton has returned or raised, per argument tuple
    call,   \* the last call made: its name and its arguments
    ret,    \* what the last call returned or raised
    data_list, \* the tables of a batch, each as data is
    threads \* the workers of a batch: for each its call, where it stands in it and its locals

vars == <<self, data, means, newton, call, ret, data_list, threads>>

\* a batch and its workers
batch == <<data_list, threads>>

None == [none |-> TRUE]

Raise(exc) == [raised |-> exc]

IsRaised(x) == "raised" \in DOMAIN x

\* a str where a cell of a table may hold one or a Geometry
Str(text) == [str |-> text]

IsStr(x) == "str" \in DOMAIN x

----------------------------------------------------------------------------
(* Python str and slicing *)

\* ord() of the characters the model uses
Ord(c) ==
    CASE c = "1" -> 49 [] c = "2" -> 50 [] c = "3" -> 51 [] c = "4" -> 52
      [] c = "9" -> 57
      [] c = "a" -> 97 [] c = "c" -> 99 [] c = "e" -> 101 [] c = "h" -> 104
      [] c = "i" -> 105 [] c = "l" -> 108 [] c = "n" -> 110 [] c = "o" -> 111
      [] c = "r" -> 114 [] c = "t" -> 116 [] c = "v" -> 118 [] c = "z" -> 122

\* a slice index as Python normalises it: negative counts from the end,
\* then clamped to 0..len
PyIndex(k, len) ==
    LET i == IF k < 0 THEN k + len ELSE k
    IN  IF i < 0 THEN 0 ELSE IF i > len THEN len ELSE i

\* s[lo:hi]
PySlice(s, lo, hi) ==
    LET a == PyIndex(lo, Len(s))
        b == PyIndex(hi, Len(s))
    IN  IF a >= b THEN << >> ELSE SubSeq(s, a + 1, b)

\* s[lo:]
PySliceFrom(s, lo) == PySlice(s, lo, Len(s))

\* s[:hi]
PySliceTo(s, hi) == PySlice(s, 0, hi)

\* s[::-1]
PyReversed(s) == [i \in 1..Len(s) |-> s[Len(s) + 1 - i]]

----------------------------------------------------------------------------
(* physicslab.utility *)

RECURSIVE InnerLoop(_, _, _, _)
\* for j in range(j, n): if array[i] > array[j]: number_of_inversions += 1
\* (0-based i, j as in the code)
InnerLoop(array, i, j, number_of_inversions) ==
    IF j >= Len(array) THEN number_of_inversions
    ELSE InnerLoop(array, i, j + 1,
                   IF Ord(array[i + 1]) > Ord(array[j + 1])
                   THEN number_of_inversions + 1
                   ELSE number_of_inversions)

RECURSIVE OuterLoop(_, _, _)
\* for i in range(i, n): for j in range(i + 1, n): ...
OuterLoop(array, i, number_of_inversions) ==
    IF i >= Len(array) THEN number_of_inversions
    ELSE OuterLoop(array, i + 1,
                   InnerLoop(array, i, i + 1, number_of_inversions))

\* (-1) ** k for k >= 0
MinusOnePower(k) == IF k % 2 = 0 THEN 1 ELSE -1

permutation_sign(array) == MinusOnePower(OuterLoop(array, 0, 0))

----------------------------------------------------------------------------
(* class Geometry(enum.Enum) *)

\* the members, in definition order
GeometryMembers ==
    << [name |-> "R1234", value |-> <<"1", "2", "3", "4">>],
       [name |-> "R3412", value |-> <<"3", "4", "1", "2">>],
       [name |-> "R2143", value |-> <<"2", "1", "4", "3">>],
       [name |-> "R4321", value |-> <<"4", "3", "2", "1">>],
       [name |-> "R2341", value |-> <<"2", "3", "4", "1">>],
       [name |-> "R4123", value |-> <<"4", "1", "2", "3">>],
       [name |-> "R3214", value |-> <<"3", "2", "1", "4">>],
       [name |-> "R1432", value |-> <<"1", "4", "3", "2">>],
       [name |-> "Vertical", value |-> <<"1", "2">>],
       [name |-> "Horizontal", value |-> <<"2", "1">>] >>

GeometrySet == {GeometryMembers[i] : i \in DOMAIN GeometryMembers}

Member(name) == CHOOSE m \in GeometrySet : m.name = name

Vertical == Member("Vertical")

Horizontal == Member("Horizontal")

\* Geometry(value): the enum's lookup by value
Geometry(value) ==
    IF \E m \in GeometrySet : m.value = value
    THEN CHOOSE m \in GeometrySet : m.value = value
    ELSE Raise("ValueError")

\* parse without the two literals
Geometry_parse_values_only(text) == Geometry(text)

Geometry_parse(text) ==
    IF text = <<"v", "e", "r", "t", "i", "c", "a", "l">> THEN Vertical
    ELSE IF text = <<"h", "o", "r", "i", "z", "o", "n", "t", "a", "l">>
    THEN Horizontal
    ELSE Geometry(text)

RECURSIVE ReversedPairs(_, _)
\* ''.join([value[i:i+2][::-1] for i in range(i, len(value), 2)])
ReversedPairs(value, i) ==
    IF i >= Len(value) THEN << >>
    ELSE PyReversed(PySlice(value, i, i + 2)) \o ReversedPairs(value, i + 2)

\* reverse_polarity that swaps the first pair only
reverse_polarity_first_pair(g) ==
    IF Len(g.value) = 2 THEN g
    ELSE Geometry(PyReversed(PySlice(g.value, 0, 2)) \o PySliceFrom(g.value, 2))

\* reverse_polarity that moves the first symbol to the end
reverse_polarity_by_rotation(g) ==
    IF Len(g.value) = 2 THEN g
    ELSE Geometry(PySliceFrom(g.value, 1) \o PySliceTo(g.value, 1))

\* reverse_polarity reversing the whole value instead of each pair
reverse_polarity_whole(g) ==
    IF Len(g.value) = 2 THEN g
    ELSE Geometry(PyReversed(g.value))

reverse_polarity(g) ==
    IF Len(g.value) = 2 THEN g
    ELSE Geometry(ReversedPairs(g.value, 0))

\* rotate that jumps two pins for every one asked for
rotate_twice(g, number, counterclockwise) ==
    LET n1 == (2 * number) % Len(g.value)
        n2 == IF ~counterclockwise THEN n1 * (-1) ELSE n1
    IN  Geometry(PySliceFrom(g.value, -n2) \o PySliceTo(g.value, -n2))

\* rotate that turns the same way whatever the direction asked for
rotate_one_way(g, number, counterclockwise) ==
    LET n1 == number % Len(g.value)
    IN  Geometry(PySliceFrom(g.value, -n1) \o PySliceTo(g.value, -n1))

\* rotate without number = number % len(self.value)
rotate_no_modulo(g, number, counterclockwise) ==
    LET n2 == IF ~counterclockwise THEN number * (-1) ELSE number
    IN  Geometry(PySliceFrom(g.value, -n2) \o PySliceTo(g.value, -n2))

rotate(g, number, counterclockwise) ==
    LET n1 == number % Len(g.value)
        n2 == IF ~counterclockwise THEN n1 * (-1) ELSE n1
    IN  Geometry(PySliceFrom(g.value, -n2) \o PySliceTo(g.value, -n2))

\* is_horizontal that knows the four-digit members only
is_horizontal_four_digit(g) ==
    Len(g.value) = 4 /\ permutation_sign(g.value) = -1

\* is_horizontal with the sign of the vertical group
is_horizontal_plus(g) == permutation_sign(g.value) = 1

is_horizontal(g) == permutation_sign(g.value) = -1

is_vertical(g) == permutation_sign(g.value) = 1

\* classify with the two groups exchanged
classify_exchanged(g) == IF is_horizontal(g) THEN Vertical ELSE Horizontal

classify(g) == IF is_horizontal(g) THEN Horizontal ELSE Vertical

----------------------------------------------------------------------------
(* float arithmetic.  A float is [n, d]: the fraction n/d in lowest terms  *)
(* with d > 0, or n/0 with n = 1 (inf), n = -1 (-inf), n = 0 (nan).        *)
(* Rounding and the sign of zero are left out.  pi / ln(2) is no fraction: *)
(* it is kept as a symbol, and [n, d, vdp |-> k] is the float              *)
(* n/d * (pi / ln(2)) ^ k, for k other than 0.                             *)

Abs(x) == IF x < 0 THEN -x ELSE x

Sgn(x) == IF x > 0 THEN 1 ELSE IF x < 0 THEN -1 ELSE 0

RECURSIVE Gcd(_, _)
Gcd(a, b) == IF b = 0 THEN a ELSE Gcd(b, a % b)

Float(n, d) ==
    IF d = 0 THEN [n |-> Sgn(n), d |-> 0]
    ELSE LET g == Gcd(Abs(n), Abs(d))
         IN  [n |-> (Sgn(d) * n) \div g, d |-> Abs(d) \div g]

nan == Float(0, 0)

inf == Float(1, 0)

IsNan(x) == x = nan

IsFinite(x) == x.d > 0

FloatAdd(x, y) ==
    IF IsNan(x) \/ IsNan(y) THEN nan
    ELSE IF ~IsFinite(x) /\ ~IsFinite(y) THEN (IF x = y THEN x ELSE nan)
    ELSE IF ~IsFinite(x) THEN x
    ELSE IF ~IsFinite(y) THEN y
    ELSE Float(x.n * y.d + y.n * x.d, x.d * y.d)

\* a positive number: neither zero, nor negative, nor nan, nor infinite
Positive(x) == IsFinite(x) /\ x.n > 0

\* np.pi / np.log(2)
van_der_pauw_constant == [n |-> 1, d |-> 1, vdp |-> 1]

\* the power of pi / ln(2) in x
Vdp(x) == IF "vdp" \in DOMAIN x THEN x.vdp ELSE 0

\* the fraction in x
Fraction(x) == [n |-> x.n, d |-> x.d]

\* q * (pi / ln(2)) ^ k; zero, nan and the infinities stay what they are
Scaled(q, k) ==
    IF k = 0 \/ q.d = 0 \/ q.n = 0 THEN q
    ELSE [n |-> q.n, d |-> q.d, vdp |-> k]

FloatMul(x, y) == Scaled(Float(x.n * y.n, x.d * y.d), Vdp(x) + Vdp(y))

\* x / y of fractions as numpy divides: a zero divisor gives inf, -inf or nan
FractionDiv(x, y) ==
    IF IsNan(x) \/ IsNan(y) THEN nan
    ELSE IF ~IsFinite(x) /\ ~IsFinite(y) THEN nan
    ELSE IF ~IsFinite(x) THEN (IF y.n < 0 THEN Float(-x.n, 0) ELSE x)
    ELSE Float(x.n * y.d, x.d * y.n)

\* x / y
FloatDiv(x, y) ==
    Scaled(FractionDiv(Fraction(x), Fraction(y)), Vdp(x) - Vdp(y))

\* x < y; false when either is nan
FloatLess(x, y) ==
    /\ ~IsNan(x)
    /\ ~IsNan(y)
    /\ x # y
    /\ IF IsFinite(x) /\ IsFinite(y) THEN x.n * y.d < y.n * x.d
       ELSE IF ~IsFinite(x) THEN x.n < 0
       ELSE y.n > 0

RECURSIVE FloatSum(_)
FloatSum(s) == IF s = << >> THEN Float(0, 1) ELSE FloatAdd(s[1], FloatSum(Tail(s)))

\* the elements of s at the positions where keep is true, in order
RECURSIVE Select(_, _)
Select(s, keep) ==
    IF s = << >> THEN << >>
    ELSE (IF keep[1] THEN <<s[1]>> ELSE << >>) \o Select(Tail(s), Tail(keep))

\* a mean that is 0 when there is nothing to average
Series_mean_or_zero(s) ==
    LET valid == Select(s, [i \in 1..Len(s) |-> ~IsNan(s[i])])
    IN  IF valid = << >> THEN Float(0, 1)
        ELSE FloatDiv(FloatSum(valid), Float(Len(valid), 1))

\* pandas Series.mean(): skipna, and nan when nothing is left
Series_mean(s) ==
    LET valid == Select(s, [i \in 1..Len(s) |-> ~IsNan(s[i])])
    IN  IF valid = << >> THEN nan
        ELSE FloatDiv(FloatSum(valid), Float(Len(valid), 1))

----------------------------------------------------------------------------
(* physicslab.electricity *)

\* Ohm's law with every division by a zero current undefined
from_ohms_law_undefined(voltage, current) ==
    IF current = Float(0, 1) THEN nan ELSE FloatDiv(voltage, current)

from_ohms_law(voltage, current) == FloatDiv(voltage, current)

\* the sheet resistance divided by the thickness
from_sheet_resistance_per_thickness(sheet_resistance, thickness) ==
    FloatDiv(sheet_resistance, thickness)

from_sheet_resistance(sheet_resistance, thickness) ==
    FloatMul(sheet_resistance, thickness)

----------------------------------------------------------------------------
(* class Columns *)

GEOMETRY == "Geometry"

VOLTAGE == "Voltage"

CURRENT == "Current"

RESISTANCE == "Hall_resistance"

Columns_mandatory == {GEOMETRY, VOLTAGE, CURRENT}

Columns_process ==
    <<"sheet_resistance", "ratio_resistance", "sheet_conductance",
      "resistivity", "conductivity">>

----------------------------------------------------------------------------
(* class Measurement *)

\* a constructor that checks nothing
Measurement_init_unchecked(df) == None

\* Measurement(data): the constructor's check; the object holds data itself
Measurement_init(df) ==
    IF ~(Columns_mandatory \subseteq DOMAIN df.columns)
    THEN Raise("ValueError")
    ELSE None

\* the resistances written only into the rows that hold none yet
WithResistance_where_undefined(df) ==
    LET r == [i \in 1..df.index |->
                 IF RESISTANCE \in DOMAIN df.columns
                        /\ ~IsNan(df.columns[RESISTANCE][i])
                 THEN df.columns[RESISTANCE][i]
                 ELSE from_ohms_law(df.columns[VOLTAGE][i], df.columns[CURRENT][i])]
    IN  [df EXCEPT !.columns =
            [c \in DOMAIN df.columns \cup {RESISTANCE} |->
                IF c = RESISTANCE THEN r ELSE df.columns[c]]]

\* the resistances written only when the column is absent or holds an
\* undefined value in some row
WithResistance_if_missing(df) ==
    LET r == [i \in 1..df.index |->
                 from_ohms_law(df.columns[VOLTAGE][i], df.columns[CURRENT][i])]
    IN  IF RESISTANCE \in DOMAIN df.columns
               /\ \A i \in 1..df.index : ~IsNan(df.columns[RESISTANCE][i])
        THEN df
        ELSE [df EXCEPT !.columns =
                 [c \in DOMAIN df.columns \cup {RESISTANCE} |->
                     IF c = RESISTANCE THEN r ELSE df.columns[c]]]

\* the resistances written over the voltages as well
WithResistance_in_voltage(df) ==
    LET r == [i \in 1..df.index |->
                 from_ohms_law(df.columns[VOLTAGE][i], df.columns[CURRENT][i])]
    IN  [df EXCEPT !.columns =
            [c \in DOMAIN df.columns \cup {RESISTANCE} |->
                IF c \in {RESISTANCE, VOLTAGE} THEN r ELSE df.columns[c]]]

\* the resistances added to what the column already holds
WithResistance_accumulated(df) ==
    LET r == [i \in 1..df.index |->
                 IF RESISTANCE \in DOMAIN df.columns
                 THEN FloatAdd(df.columns[RESISTANCE][i],
                               from_ohms_law(df.columns[VOLTAGE][i],
                                             df.columns[CURRENT][i]))
                 ELSE from_ohms_law(df.columns[VOLTAGE][i],
                                    df.columns[CURRENT][i])]
    IN  [df EXCEPT !.columns =
            [c \in DOMAIN df.columns \cup {RESISTANCE} |->
                IF c = RESISTANCE THEN r ELSE df.columns[c]]]

\* data.loc[:, RESISTANCE] = Resistance.from_ohms_law(data[VOLTAGE], data[CURRENT])
WithResistance(df) ==
    LET r == [i \in 1..df.index |->
                 from_ohms_law(df.columns[VOLTAGE][i], df.columns[CURRENT][i])]
    IN  [df EXCEPT !.columns =
            [c \in DOMAIN df.columns \cup {RESISTANCE} |->
                IF c = RESISTANCE THEN r ELSE df.columns[c]]]

\* Geometry.classify, then Geometry.is_horizontal, of every member
IsHorizontalGroup == [g \in GeometrySet |-> is_horizontal(classify(g))]

\* mask = data[GEOMETRY].apply(Geometry.classify).apply(Geometry.is_horizontal)
Mask(df) ==
    [i \in 1..df.index |-> IsHorizontalGroup[df.columns[GEOMETRY][i]]]

\* ~mask forgotten: the same rows again
Not_forgotten(mask) == mask

Not(mask) == [i \in DOMAIN mask |-> ~mask[i]]

\* the (Rh, Rv) that Measurement.analyze returns; df already holds the
\* resistances
GroupMeans(df) ==
    LET mask == Mask(df)
        Rh == Series_mean(Select(df.columns[RESISTANCE], mask))
        Rv == Series_mean(Select(df.columns[RESISTANCE], Not(mask)))
    IN  [Rh |-> Rh, Rv |-> Rv]

\* Measurement.analyze: [data |-> the table afterwards, ret |-> (Rh, Rv) or
\* the exception].  Reading a column the table lacks raises KeyError: the
\* voltage and the current before anything is written, the geometry after
\* the resistances are.  Geometry.classify is applied to every cell as it
\* is: on a str it asks for self.is_horizontal, which a str has not
\* (AttributeError).
\* Measurement.analyze that parses the labels it finds among the geometries
Measurement_analyze_parsing(df) ==
    LET filled == WithResistance(df)
        parsed ==
            [filled EXCEPT !.columns[GEOMETRY] =
                [i \in 1..df.index |->
                    IF IsStr(df.columns[GEOMETRY][i])
                    THEN Geometry_parse(df.columns[GEOMETRY][i].str)
                    ELSE df.columns[GEOMETRY][i]]]
    IN  [data |-> filled, ret |-> GroupMeans(parsed)]

\* Measurement.analyze that classifies the geometries before it writes the
\* resistances
Measurement_analyze_classify_first(df) ==
    IF ~({VOLTAGE, CURRENT, GEOMETRY} \subseteq DOMAIN df.columns)
    THEN [data |-> df, ret |-> Raise("KeyError")]
    ELSE IF \E i \in 1..df.index : IsStr(df.columns[GEOMETRY][i])
    THEN [data |-> df, ret |-> Raise("AttributeError")]
    ELSE LET filled == WithResistance(df)
         IN  [data |-> filled, ret |-> GroupMeans(filled)]

Measurement_analyze(df) ==
    IF ~({VOLTAGE, CURRENT} \subseteq DOMAIN df.columns)
    THEN [data |-> df, ret |-> Raise("KeyError")]
    ELSE LET filled == WithResistance(df)
         IN  IF GEOMETRY \notin DOMAIN df.columns
             THEN [data |-> filled, ret |-> Raise("KeyError")]
             ELSE IF \E i \in 1..df.index : IsStr(df.columns[GEOMETRY][i])
             THEN [data |-> filled, ret |-> Raise("AttributeError")]
             ELSE [data |-> filled, ret |-> GroupMeans(filled)]

----------------------------------------------------------------------------
(* class Solve *)

\* Solve.square with the two resistances added and not halved
Solve_square_sum(Rh, Rv) ==
    LET R == FloatAdd(Rh, Rv)
    IN  FloatMul(R, van_der_pauw_constant)

Solve_square(Rh, Rv) ==
    LET R == FloatDiv(FloatAdd(Rh, Rv), Float(2, 1))
    IN  FloatMul(R, van_der_pauw_constant)

\* the arguments scipy.optimize.newton gets from Solve.universal
NewtonArgs(Rh, Rv, Rs0) == <<Rs0, Rh, Rv>>

\* Solve.universal: whatever newton returns or raises (outcome)
Solve_universal(Rh, Rv, Rs0, outcome) == outcome

\* Solve.analyze without the turn of a ratio below one
Solve_analyze_as_it_comes(Rh, Rv, outcome) ==
    LET sheet_resistance == Solve_universal(Rh, Rv, Solve_square(Rh, Rv), outcome)
    IN  IF IsRaised(sheet_resistance) THEN sheet_resistance
        ELSE [sheet_resistance |-> sheet_resistance,
              ratio_resistance |-> FloatDiv(Rh, Rv)]

Solve_analyze(Rh, Rv, outcome) ==
    LET Rs0 == Solve_square(Rh, Rv)
        sheet_resistance == Solve_universal(Rh, Rv, Rs0, outcome)
        ratio == FloatDiv(Rh, Rv)
        ratio_resistance ==
            IF FloatLess(ratio, Float(1, 1)) THEN FloatDiv(Float(1, 1), ratio)
            ELSE ratio
    IN  IF IsRaised(sheet_resistance) THEN sheet_resistance
        ELSE [sheet_resistance |-> sheet_resistance,
              ratio_resistance |-> ratio_resistance]

----------------------------------------------------------------------------
(* process *)

Series(values, name) ==
    [index |-> Columns_process, data |-> values, name |-> name]

\* process(None): the units
ProcessUnits ==
    Series(<<"ohms per square", "1", "1/ohms square", "ohm m", "1/ohm/m">>,
           "units")

\* the Series with the conductivity never derived
ProcessSeries_no_conductivity(solved, thickness) ==
    LET sheet_resistance == solved.sheet_resistance
        resistivity ==
            IF thickness # None
            THEN from_sheet_resistance(sheet_resistance, thickness)
            ELSE nan
    IN  Series(<<sheet_resistance, solved.ratio_resistance,
                 FloatDiv(Float(1, 1), sheet_resistance), resistivity, nan>>,
               "get_name(data)")

\* the Series process builds once Solve.analyze has returned
ProcessSeries(solved, thickness) ==
    LET sheet_resistance == solved.sheet_resistance
        ratio_resistance == solved.ratio_resistance
        sheet_conductance == FloatDiv(Float(1, 1), sheet_resistance)
        resistivity ==
            IF thickness # None
            THEN from_sheet_resistance(sheet_resistance, thickness)
            ELSE nan
        conductivity ==
            IF thickness # None THEN FloatDiv(Float(1, 1), resistivity) ELSE nan
    IN  Series(<<sheet_resistance, ratio_resistance, sheet_conductance,
                 resistivity, conductivity>>, "get_name(data)")

\* a process that swallows the solver's error and reports nan
ProcessReturn_swallowed(solved, thickness) ==
    IF IsRaised(solved)
    THEN ProcessSeries([sheet_resistance |-> nan, ratio_resistance |-> nan],
                       thickness)
    ELSE ProcessSeries(solved, thickness)

\* what process returns or raises once Solve.analyze has returned or raised
ProcessReturn(solved, thickness) ==
    IF IsRaised(solved) THEN solved ELSE ProcessSeries(solved, thickness)

----------------------------------------------------------------------------
(* scipy.optimize.newton, as Solve.universal calls it: a function of its   *)
(* arguments that either returns a float or raises RuntimeError ("Failed   *)
(* to converge").  Its value is not computed here: each argument tuple     *)
(* gets one outcome, the same every time it is asked again.  Every secant  *)
(* iterate of a nan or infinite Rh or Rv is nan, so there it raises.  When *)
(* the seed x0 is a zero of func the secant steps come back to x0, and x0  *)
(* is what it returns.                                                     *)

NewtonRoots == {Float(3, 1), Float(9, 2)}

NewtonOutcomes == {Raise("RuntimeError")} \cup NewtonRoots

\* implicit_formula(Rs0, Rh, Rv) = 0 at the seed Rs0 = Solve.square(Rh, Rv)
\* when Rh = Rv > 0: exp(-pi * R / (R * pi / ln(2))) is 1/2, twice
NewtonSeedIsRoot(args) ==
    /\ Positive(args[2])
    /\ args[2] = args[3]
    /\ args[1] = FloatMul(args[2], van_der_pauw_constant)

NewtonCan(args, outcome) ==
    /\ IF NewtonSeedIsRoot(args) THEN outcome = args[1]
       ELSE outcome \in NewtonOutcomes
    /\ (~IsFinite(args[2]) \/ ~IsFinite(args[3]))
           => outcome = Raise("RuntimeError")
    /\ \A e \in newton : e.args = args => e.outcome = outcome

----------------------------------------------------------------------------
(* the tables a caller hands over *)

MaxRows == 2

Voltages == {Float(0, 1), Float(1, 1), Float(2, 1)}

Currents == {Float(0, 1), Float(2, 1)}

\* the labels a caller may write where a Geometry is expected
TableLabels ==
    {Str(<<"1", "2", "3", "4">>),
     Str(<<"h", "o", "r", "i", "z", "o", "n", "t", "a", "l">>)}

TableGeometries ==
    {Member("R1234"), Member("R2143"), Member("R2341"), Horizontal}

\* what a Hall_resistance column holds when the caller filled it in
StaleResistance == Float(7, 1)

ColumnSets ==
    {Columns_mandatory, Columns_mandatory \cup {RESISTANCE}}
        \cup {Columns_mandatory \ {c} : c \in Columns_mandatory}

\* the Hall_resistance columns a caller filled in.  A column with an
\* undefined value in some row is what an earlier call leaves behind for
\* the next one (0 / 0).
ResistanceColumns(n) == {[k \in 1..n |-> StaleResistance]}

DataFrame(n, g, v, i, r, cols) ==
    [index |-> n,
     columns |-> [c \in cols |->
                    CASE c = GEOMETRY -> g
                      [] c = VOLTAGE -> v
                      [] c = CURRENT -> i
                      [] c = RESISTANCE -> r]]

\* the Hall_resistance column of the table as the caller hands it over
Given(df) ==
    IF RESISTANCE \in DOMAIN df.columns
    THEN [column |-> df.columns[RESISTANCE]]
    ELSE None

Thicknesses == {None, Float(2, 1)}

----------------------------------------------------------------------------
(* the calls on a table *)

Init ==
    /\ self = None
    /\ \E n \in 1..MaxRows :
         \E g \in [1..n -> TableGeometries], v \in [1..n -> Voltages],
            i \in [1..n -> Currents], r \in ResistanceColumns(n),
            cols \in ColumnSets :
             data = DataFrame(n, g, v, i, r, cols)
    /\ means = None
    /\ newton = {}
    /\ call = [op |-> "init"]
    /\ ret = None
    /\ data_list = << >>
    /\ threads = << >>

\* van_der_pauw.process(data, thickness) on the table
CallProcess ==
    /\ IF IsRaised(Measurement_init(data))
       THEN /\ ret' = Measurement_init(data)
            /\ \E thickness \in Thicknesses :
                   call' = [op |-> "process", thickness |-> thickness,
                            given |-> Given(data)]
            /\ means' = None
            /\ UNCHANGED <<data, newton>>
       ELSE \E analyzed \in {Measurement_analyze(data)} :
            IF IsRaised(analyzed.ret)
            THEN /\ ret' = analyzed.ret
                 /\ \E thickness \in Thicknesses :
                        call' = [op |-> "process", thickness |-> thickness,
                                 given |-> Given(data)]
                 /\ means' = None
                 /\ data' = analyzed.data
                 /\ UNCHANGED newton
            ELSE \E args \in {NewtonArgs(analyzed.ret.Rh, analyzed.ret.Rv,
                                         Solve_square(analyzed.ret.Rh,
                                                      analyzed.ret.Rv))} :
                 \E outcome \in NewtonOutcomes \cup {args[1]} :
                 \E thickness \in Thicknesses :
                     /\ NewtonCan(args, outcome)
                     /\ newton' = newton \cup {[args |-> args, outcome |-> outcome]}
                     /\ data' = analyzed.data
                     /\ means' = analyzed.ret
                     /\ ret' = ProcessReturn(
                                   Solve_analyze(analyzed.ret.Rh, analyzed.ret.Rv,
                                                 outcome),
                                   thickness)
                     /\ call' = [op |-> "process", thickness |-> thickness,
                                 given |-> Given(data)]
    /\ UNCHANGED self
    /\ UNCHANGED batch

\* van_der_pauw.process(None)
CallProcessNone ==
    /\ ret' = ProcessUnits
    /\ call' = [op |-> "process(None)"]
    /\ UNCHANGED <<self, data, means, newton>>
    /\ UNCHANGED batch

\* Measurement(data).analyze()
CallAnalyze ==
    /\ IF IsRaised(Measurement_init(data))
       THEN /\ ret' = Measurement_init(data)
            /\ means' = None
            /\ data' = data
       ELSE \E analyzed \in {Measurement_analyze(data)} :
                /\ ret' = analyzed.ret
                /\ means' = IF IsRaised(analyzed.ret) THEN None ELSE analyzed.ret
                /\ data' = analyzed.data
    /\ call' = [op |-> "analyze", given |-> Given(data)]
    /\ UNCHANGED <<self, newton>>
    /\ UNCHANGED batch

Next ==
    \/ CallProcess
    \/ CallProcessNone
    \/ CallAnalyze

Spec == Init /\ [][Next]_vars

\* the same calls on the tables of a caller who wrote labels, '1234' or
\* 'horizontal', into cells of the Geometry column, or into all of them
\* next to a Hall_resistance column filled in
InitLabels ==
    /\ self = None
    /\ \E n \in 1..MaxRows :
         \/ \E g \in [1..n -> TableGeometries \cup TableLabels],
               v \in [1..n -> Voltages], i \in [1..n -> Currents] :
                data = DataFrame(n, g, v, i, << >>, Columns_mandatory)
         \/ \E g \in [1..n -> TableLabels],
               v \in [1..n -> Voltages], i \in [1..n -> Currents],
               r \in ResistanceColumns(n) :
                data = DataFrame(n, g, v, i, r,
                                 Columns_mandatory \cup {RESISTANCE})
    /\ means = None
    /\ newton = {}
    /\ call = [op |-> "init"]
    /\ ret = None
    /\ data_list = << >>
    /\ threads = << >>

SpecLabels == InitLabels /\ [][Next]_vars

----------------------------------------------------------------------------
(* the calls on a Geometry *)

MaxTextLen == 4

MaxNumber == 5

TextChars == {"1", "2", "3", "4", "9"}

Texts ==
    UNION {[1..n -> TextChars] : n \in 0..MaxTextLen}
        \cup {<<"v", "e", "r", "t", "i", "c", "a", "l">>,
              <<"h", "o", "r", "i", "z", "o", "n", "t", "a", "l">>}

\* a member named directly (Geometry.R1234), or none yet: parse makes it
InitGeometry ==
    /\ self \in GeometrySet \cup {None}
    /\ data = None
    /\ means = None
    /\ newton = {}
    /\ call = [op |-> "init"]
    /\ ret = None
    /\ data_list = << >>
    /\ threads = << >>

\* what a call leaves in self: the Geometry it returned, for the next call
Returned(r) ==
    /\ ret' = r
    /\ self' = IF IsRaised(r) THEN self ELSE r
    /\ UNCHANGED <<data, means, newton>>
    /\ UNCHANGED batch

CallParse(text) ==
    /\ self = None
    /\ call.op = "init"
    /\ call' = [op |-> "parse", text |-> text]
    /\ Returned(Geometry_parse(text))

CallReversePolarity ==
    /\ self # None
    /\ call' = [op |-> "reverse_polarity", self |-> self]
    /\ Returned(reverse_polarity(self))

CallRotate(number, counterclockwise) ==
    /\ self # None
    /\ call' = [op |-> "rotate", self |-> self, number |-> number,
                counterclockwise |-> counterclockwise]
    /\ Returned(rotate(self, number, counterclockwise))

CallClassify ==
    /\ self # None
    /\ call' = [op |-> "classify", self |-> self]
    /\ Returned(classify(self))

CallIsHorizontal ==
    /\ self # None
    /\ call' = [op |-> "is_horizontal", self |-> self]
    /\ ret' = is_horizontal(self)
    /\ UNCHANGED <<self, data, means, newton>>
    /\ UNCHANGED batch

CallIsVertical ==
    /\ self # None
    /\ call' = [op |-> "is_vertical", self |-> self]
    /\ ret' = is_vertical(self)
    /\ UNCHANGED <<self, data, means, newton>>
    /\ UNCHANGED batch

NextGeometry ==
    \/ \E text \in Texts : CallParse(text)
    \/ CallReversePolarity
    \/ \E number \in -MaxNumber..MaxNumber, counterclockwise \in BOOLEAN :
           CallRotate(number, counterclockwise)
    \/ CallClassify
    \/ CallIsHorizontal
    \/ CallIsVertical

SpecGeometry == InitGeometry /\ [][NextGeometry]_vars

----------------------------------------------------------------------------
(* the calls on Solve *)

\* the argument tuples newton is asked about in one run
MaxSolved == 1

SolveInputs == {Float(0, 1), Float(1, 2), Float(2, 1), Float(1000, 1)}

InitSolve ==
    /\ self = None
    /\ data = None
    /\ means = None
    /\ newton = {}
    /\ call = [op |-> "init"]
    /\ ret = None
    /\ data_list = << >>
    /\ threads = << >>

\* Solve.square(Rh, Rv)
CallSolveSquare(Rh, Rv) ==
    /\ call' = [op |-> "Solve.square", Rh |-> Rh, Rv |-> Rv]
    /\ ret' = Solve_square(Rh, Rv)
    /\ UNCHANGED <<self, data, means, newton>>
    /\ UNCHANGED batch

\* Solve.analyze(Rh, Rv)
CallSolveAnalyze(Rh, Rv) ==
    \E args \in {NewtonArgs(Rh, Rv, Solve_square(Rh, Rv))} :
    \E outcome \in NewtonOutcomes \cup {args[1]} :
        /\ NewtonCan(args, outcome)
        /\ newton' = newton \cup {[args |-> args, outcome |-> outcome]}
        /\ Cardinality(newton') <= MaxSolved
        /\ call' = [op |-> "Solve.analyze", Rh |-> Rh, Rv |-> Rv]
        /\ ret' = Solve_analyze(Rh, Rv, outcome)
        /\ UNCHANGED <<self, data, means>>
        /\ UNCHANGED batch

NextSolve ==
    \/ \E Rh \in SolveInputs, Rv \in SolveInputs : CallSolveSquare(Rh, Rv)
    \/ \E Rh \in SolveInputs, Rv \in SolveInputs : CallSolveAnalyze(Rh, Rv)

SpecSolve == InitSolve /\ [][NextSolve]_vars

----------------------------------------------------------------------------
(* a batch: experiment.process over data_list, one worker per call, and    *)
(* Measurement.analyze called by two workers on one table.  A worker takes *)
(* the statements of its call one at a time.  The assignment               *)
(* data.loc[:, RESISTANCE] = ... is three steps: the right-hand side, the  *)
(* lookup of the label among the columns, and then the insertion of a new  *)
(* column or the overwriting of the column found; pandas holds no lock     *)
(* between them.                                                           *)

Workers == {"A", "B"}

BatchGeometries ==
    {<<Member("R1234"), Member("R2341")>>, <<Member("R2341"), Member("R2143")>>}

BatchVoltages == {<<Float(1, 1), Float(2, 1)>>, <<Float(2, 1), Float(2, 1)>>}

BatchCurrents == {<<Float(2, 1), Float(2, 1)>>}

BatchTables ==
    {DataFrame(2, g, v, i, r, cols) :
        g \in BatchGeometries, v \in BatchVoltages, i \in BatchCurrents,
        r \in ResistanceColumns(2),
        cols \in {Columns_mandatory, Columns_mandatory \cup {RESISTANCE},
                  Columns_mandatory \ {CURRENT}}}

\* the key of a second column labelled Hall_resistance: pandas keeps both
\* under the one label
SECOND_RESISTANCE == "Hall_resistance (second column of the label)"

\* a worker about to make its call on data_list[table]
Frame(op, table, given, thickness) ==
    [op |-> op, table |-> table, given |-> given, thickness |-> thickness,
     pc |-> "called", resistance |-> << >>, found |-> FALSE, mask |-> << >>,
     Rh |-> None, Rv |-> None, ret |-> None]

InitBatch ==
    /\ self = None
    /\ data = None
    /\ means = None
    /\ newton = {}
    /\ call = [op |-> "init"]
    /\ ret = None
    /\ \/ \E table \in BatchTables :
            /\ data_list = <<table>>
            /\ threads = [w \in Workers |-> Frame("analyze", 1, table, None)]
       \/ \E tableA \in BatchTables, tableB \in BatchTables,
             thickness \in Thicknesses :
            /\ data_list = <<tableA, tableB>>
            /\ threads = [w \in Workers |->
                            IF w = "A" THEN Frame("process", 1, tableA, thickness)
                            ELSE Frame("process", 2, tableB, thickness)]

\* every worker writing the column into the first table of the list
ThreadTable_written_first(frame) ==
    IF frame.pc = "assign" THEN 1 ELSE frame.table

\* for i, data in enumerate(data_list): the table of the worker's call
ThreadTable(frame) == frame.table

Table(w) == data_list[ThreadTable(threads[w])]

\* the column found under the label is overwritten, a second one of the
\* label with it; a label not among the columns is inserted
SetColumn(df, r) ==
    [df EXCEPT !.columns =
        [c \in DOMAIN df.columns \cup {RESISTANCE} |->
            IF c \in {RESISTANCE, SECOND_RESISTANCE} THEN r ELSE df.columns[c]]]

\* the label inserted once more
InsertedAgain(df, r) ==
    [df EXCEPT !.columns =
        [c \in DOMAIN df.columns \cup {SECOND_RESISTANCE} |->
            IF c = SECOND_RESISTANCE THEN r ELSE df.columns[c]]]

\* an assignment that looks the label up again as it writes
Assigned_atomic(df, r, found) == {SetColumn(df, r)}

\* what the assignment does after a lookup that found the label or did not.
\* When the label was not found and is among the columns by now, the
\* insertion either adds a second column of the label or is refused
\* ("cannot insert Hall_resistance, already exists"), as pandas versions go.
Assigned(df, r, found) ==
    IF found \/ RESISTANCE \notin DOMAIN df.columns
    THEN {SetColumn(df, r)}
    ELSE {InsertedAgain(df, r), Raise("ValueError")}

\* data.loc[mask, RESISTANCE].mean(): a float, or the Series of the means of
\* the columns of the label when there are two
ColumnMean(df, mask) ==
    IF SECOND_RESISTANCE \in DOMAIN df.columns
    THEN [series |-> <<Series_mean(Select(df.columns[RESISTANCE], mask)),
                       Series_mean(Select(df.columns[SECOND_RESISTANCE], mask))>>]
    ELSE Series_mean(Select(df.columns[RESISTANCE], mask))

\* measurement = Measurement(data)
ThreadCall(w) ==
    /\ threads[w].pc = "called"
    /\ \E checked \in {Measurement_init(Table(w))} :
           threads' = [threads EXCEPT
                          ![w].pc = IF IsRaised(checked) THEN "done" ELSE "ohm",
                          ![w].ret = checked]
    /\ UNCHANGED <<self, data, means, newton, call, ret, data_list>>

\* Resistance.from_ohms_law(self.data[VOLTAGE], self.data[CURRENT])
ThreadOhm(w) ==
    /\ threads[w].pc = "ohm"
    /\ threads' = [threads EXCEPT
                      ![w].pc = "lookup",
                      ![w].resistance =
                          [k \in 1..Table(w).index |->
                              from_ohms_law(Table(w).columns[VOLTAGE][k],
                                            Table(w).columns[CURRENT][k])]]
    /\ UNCHANGED <<self, data, means, newton, call, ret, data_list>>

\* self.data.loc[:, RESISTANCE] = ...: is the label among the columns
ThreadLookup(w) ==
    /\ threads[w].pc = "lookup"
    /\ threads' = [threads EXCEPT
                      ![w].pc = "assign",
                      ![w].found = RESISTANCE \in DOMAIN Table(w).columns]
    /\ UNCHANGED <<self, data, means, newton, call, ret, data_list>>

\* self.data.loc[:, RESISTANCE] = ...: the column written
ThreadAssign(w) ==
    /\ threads[w].pc = "assign"
    /\ \E outcome \in Assigned(Table(w), threads[w].resistance, threads[w].found) :
           IF IsRaised(outcome)
           THEN /\ threads' = [threads EXCEPT ![w].pc = "done", ![w].ret = outcome]
                /\ UNCHANGED data_list
           ELSE /\ threads' = [threads EXCEPT ![w].pc = "classify"]
                /\ data_list' = [data_list EXCEPT ![ThreadTable(threads[w])] = outcome]
    /\ UNCHANGED <<self, data, means, newton, call, ret>>

\* geometries = ...apply(Geometry.classify); mask = ...apply(Geometry.is_horizontal)
ThreadClassify(w) ==
    /\ threads[w].pc = "classify"
    /\ threads' = [threads EXCEPT ![w].pc = "Rh", ![w].mask = Mask(Table(w))]
    /\ UNCHANGED <<self, data, means, newton, call, ret, data_list>>

\* Rh = self.data.loc[mask, RESISTANCE].mean()
ThreadRh(w) ==
    /\ threads[w].pc = "Rh"
    /\ threads' = [threads EXCEPT
                      ![w].pc = "Rv",
                      ![w].Rh = ColumnMean(Table(w), threads[w].mask)]
    /\ UNCHANGED <<self, data, means, newton, call, ret, data_list>>

\* Rv = self.data.loc[~mask, RESISTANCE].mean(); return Rh, Rv
ThreadRv(w) ==
    /\ threads[w].pc = "Rv"
    /\ \E Rv \in {ColumnMean(Table(w), Not(threads[w].mask))} :
           threads' = [threads EXCEPT
                          ![w].pc = IF threads[w].op = "analyze" THEN "done"
                                    ELSE "solve",
                          ![w].Rv = Rv,
                          ![w].ret = IF threads[w].op = "analyze"
                                     THEN [Rh |-> threads[w].Rh, Rv |-> Rv]
                                     ELSE None]
    /\ UNCHANGED <<self, data, means, newton, call, ret, data_list>>

\* process: Solve.analyze(Rh, Rv), then the record
ThreadSolve(w) ==
    /\ threads[w].pc = "solve"
    /\ \E args \in {NewtonArgs(threads[w].Rh, threads[w].Rv,
                               Solve_square(threads[w].Rh, threads[w].Rv))} :
       \E outcome \in NewtonOutcomes \cup {args[1]} :
           /\ NewtonCan(args, outcome)
           /\ newton' = newton \cup {[args |-> args, outcome |-> outcome]}
           /\ threads' = [threads EXCEPT
                             ![w].pc = "done",
                             ![w].ret = ProcessReturn(
                                            Solve_analyze(threads[w].Rh,
                                                          threads[w].Rv, outcome),
                                            threads[w].thickness)]
    /\ UNCHANGED <<self, data, means, call, ret, data_list>>

NextBatch ==
    \/ \E w \in Workers : ThreadCall(w)
    \/ \E w \in Workers : ThreadOhm(w)
    \/ \E w \in Workers : ThreadLookup(w)
    \/ \E w \in Workers : ThreadAssign(w)
    \/ \E w \in Workers : ThreadClassify(w)
    \/ \E w \in Workers : ThreadRh(w)
    \/ \E w \in Workers : ThreadRv(w)
    \/ \E w \in Workers : ThreadSolve(w)

SpecBatch == InitBatch /\ [][NextBatch]_vars

----------------------------------------------------------------------------
(* Geometry: the claims *)

FourDigit == {g \in GeometrySet : Len(g.value) = 4}

\* the index pairs i < j with value[i] > value[j]
Inversions(value) ==
    Cardinality({p \in (1..Len(value)) \X (1..Len(value)) :
                    p[1] < p[2] /\ Ord(value[p[1]]) > Ord(value[p[2]])})

\* C1: for each of the 8 four-digit geometries classify() returns
\* Horizontal when the number of inversions is odd and Vertical when it is
\* even, is_horizontal() and is_vertical() are never both true or both
\* false, and the 8 geometries split 4 and 4 between the two groups.
C1_ClassifyByParity ==
    /\ (call.op = "classify" /\ call.self \in FourDigit) =>
           /\ ret \in {Horizontal, Vertical}
           /\ (ret = Horizontal) <=> (Inversions(call.self.value) % 2 = 1)
           /\ (ret = Vertical) <=> (Inversions(call.self.value) % 2 = 0)
    /\ (call.op = "is_horizontal" /\ call.self \in FourDigit) =>
           (ret <=> Inversions(call.self.value) % 2 = 1)
    /\ (call.op = "is_vertical" /\ call.self \in FourDigit) =>
           (ret <=> Inversions(call.self.value) % 2 = 0)
    /\ self \in FourDigit => (is_horizontal(self) # is_vertical(self))
    /\ Cardinality({g \in FourDigit : classify(g) = Horizontal}) = 4
    /\ Cardinality({g \in FourDigit : classify(g) = Vertical}) = 4

C1_Witness ==
    /\ call.op = "classify"
    /\ call.self = Member("R2341")
    /\ ret = Horizontal

Literals ==
    {<<"v", "e", "r", "t", "i", "c", "a", "l">>,
     <<"h", "o", "r", "i", "z", "o", "n", "t", "a", "l">>}

\* a 4-character string holding each of the digits 1, 2, 3, 4 exactly once
IsPermutationOf1234(text) ==
    /\ Len(text) = 4
    /\ {text[i] : i \in 1..4} = {"1", "2", "3", "4"}

EightValues ==
    {<<"1", "2", "3", "4">>, <<"3", "4", "1", "2">>, <<"2", "1", "4", "3">>,
     <<"4", "3", "2", "1">>, <<"2", "3", "4", "1">>, <<"4", "1", "2", "3">>,
     <<"3", "2", "1", "4">>, <<"1", "4", "3", "2">>}

\* C5 as claimed: parse(text) succeeds exactly when text is a 4-character
\* string holding each of the digits 1, 2, 3, 4 exactly once or is one of
\* the literals 'horizontal' / 'vertical'; for every other string it fails
\* with ValueError.
C5_AsClaimed ==
    call.op = "parse" =>
        /\ ~IsRaised(ret) <=>
               (IsPermutationOf1234(call.text) \/ call.text \in Literals)
        /\ IsRaised(ret) => ret = Raise("ValueError")

\* C5 amended: parse(text) succeeds exactly when text is the value of one
\* of the 8 four-digit members, one of the two group values '12' / '21', or
\* one of the literals 'horizontal' / 'vertical'; it then returns the member
\* of that value (the group of that literal).  For every other string, the
\* other 16 permutations of 1234 among them, it fails with ValueError and
\* returns no Geometry.
C5_ParseAccepts ==
    call.op = "parse" =>
        /\ ~IsRaised(ret) <=>
               \/ call.text \in EightValues
               \/ call.text \in {<<"1", "2">>, <<"2", "1">>}
               \/ call.text \in Literals
        /\ IsRaised(ret) => (ret = Raise("ValueError") /\ self = None)
        /\ ~IsRaised(ret) =>
               /\ ret \in GeometrySet
               /\ self = ret
               /\ call.text \notin Literals => ret.value = call.text
               /\ call.text = <<"v", "e", "r", "t", "i", "c", "a", "l">> =>
                      ret.name = "Vertical"
               /\ call.text = <<"h", "o", "r", "i", "z", "o", "n", "t", "a", "l">> =>
                      ret.name = "Horizontal"

\* '1243', a permutation of 1234 that is no member's value, is refused
C5_Witness ==
    /\ call.op = "parse"
    /\ call.text = <<"1", "2", "4", "3">>
    /\ ret = Raise("ValueError")

\* C10: reverse_polarity swaps the two symbols inside each of the two
\* terminal pairs of a four-digit geometry, and applying it to what it
\* returned gives the geometry it started from.
C10_ReversePolarityInvolution ==
    (call.op = "reverse_polarity" /\ call.self \in FourDigit) =>
        /\ ~IsRaised(ret)
        /\ ret \in FourDigit
        /\ ret.value = <<call.self.value[2], call.self.value[1],
                         call.self.value[4], call.self.value[3]>>
        /\ reverse_polarity(ret) = call.self

C10_Witness ==
    /\ call.op = "reverse_polarity"
    /\ call.self = Member("R1234")
    /\ ret = Member("R2143")

\* C11: inverse rotations cancel: for every geometry g and every number n,
\* rotating what g.rotate(n, counterclockwise) returned by the same n in the
\* other direction gives g again, whichever of the two directions came
\* first.
C11_InverseRotationsCancel ==
    call.op = "rotate" =>
        /\ ~IsRaised(ret)
        /\ ~IsRaised(rotate(ret, call.number, ~call.counterclockwise))
        /\ rotate(ret, call.number, ~call.counterclockwise) = call.self

\* 1234 turned by 3 counterclockwise is 2341, which turned back is 1234
C11_Witness ==
    /\ call.op = "rotate"
    /\ call.self = Member("R1234")
    /\ call.number = 3
    /\ call.counterclockwise
    /\ ret = Member("R2341")
    /\ rotate(ret, 3, FALSE) = Member("R1234")

\* value with every symbol moved k places on, cyclically: to the right
\* (counterclockwise) or to the left
Shifted(value, k, counterclockwise) ==
    [i \in 1..Len(value) |->
        value[((IF counterclockwise THEN i - 1 - k ELSE i - 1 + k)
                  % Len(value)) + 1]]

\* C12: rotate accepts any integer: for every four-digit geometry g, every
\* number n (negative, zero, 4 or more) and either direction, g.rotate(n,
\* direction) raises nothing and is g.rotate(n mod 4, direction), the value
\* of g moved n mod 4 places on cyclically; rotating by 0 or by 4 returns g.
C12_RotateAnyInteger ==
    (call.op = "rotate" /\ call.self \in FourDigit) =>
        /\ ~IsRaised(ret)
        /\ ret \in FourDigit
        /\ ret = rotate(call.self, call.number % 4, call.counterclockwise)
        /\ ret.value = Shifted(call.self.value, call.number % 4,
                                call.counterclockwise)
        /\ call.number \in {0, 4} => ret = call.self

\* 1234 turned by 5 is 1234 turned by 1
C12_Witness ==
    /\ call.op = "rotate"
    /\ call.self = Member("R1234")
    /\ call.number = 5
    /\ call.counterclockwise
    /\ ret = Member("R4123")

\* the two group labels
Groups == {Horizontal, Vertical}

\* C21: the two group labels Horizontal and Vertical are returned unchanged
\* by classify() and by reverse_polarity(), and classify is idempotent:
\* classifying what classify() returned, for any of the 10 geometries,
\* returns it again.
C21_GroupsUnchanged ==
    /\ (call.op \in {"classify", "reverse_polarity"} /\ call.self \in Groups) =>
           ret = call.self
    /\ call.op = "classify" =>
           /\ ret \in Groups
           /\ classify(ret) = ret

\* Horizontal classified is Horizontal
C21_Witness ==
    /\ call.op = "classify"
    /\ call.self = Horizontal
    /\ ret = Horizontal
    /\ self = Horizontal

\* C24: the 8 four-digit geometries are closed under rotate and
\* reverse_polarity: a call of either on a four-digit geometry, with any
\* number and either direction, raises nothing and returns a four-digit
\* geometry, never a group label, which is the geometry the next call of
\* the sequence acts on.
C24_FourDigitClosed ==
    [][(self \in FourDigit /\ call'.op \in {"rotate", "reverse_polarity"}) =>
           /\ ~IsRaised(ret')
           /\ ret' \in FourDigit
           /\ self' = ret'
      ]_vars

\* 4123, itself 1234 turned by one, reversed is 1432
C24_Witness ==
    /\ call.op = "reverse_polarity"
    /\ call.self = Member("R4123")
    /\ rotate(Member("R1234"), 1, TRUE) = call.self
    /\ ret = Member("R1432")
    /\ self = ret

\* C25: reversing polarity never changes the measured axis: for each of
\* the 10 geometries g, g.reverse_polarity() raises nothing and classifies
\* as g does.
C25_ReversePolarityKeepsAxis ==
    call.op = "reverse_polarity" =>
        /\ ~IsRaised(ret)
        /\ classify(ret) = classify(call.self)

\* 2341 and its reverse 3214 are both Horizontal
C25_Witness ==
    /\ call.op = "reverse_polarity"
    /\ call.self = Member("R2341")
    /\ ret = Member("R3214")
    /\ classify(ret) = Horizontal

\* C26: rotation switches the measured axis exactly on odd steps: for each
\* of the 10 geometries g, every number n and either direction,
\* g.rotate(n, direction) raises nothing and classifies as g does if and
\* only if n is even.
C26_RotateSwitchesOnOdd ==
    call.op = "rotate" =>
        /\ ~IsRaised(ret)
        /\ (classify(ret) = classify(call.self)) <=> (call.number % 2 = 0)

\* the group label Vertical turned by -3 clockwise is Horizontal
C26_Witness ==
    /\ call.op = "rotate"
    /\ call.self = Vertical
    /\ call.number = -3
    /\ ~call.counterclockwise
    /\ ret = Horizontal

----------------------------------------------------------------------------
(* Measurement and process: the claims *)

\* the group every member classifies into
GroupOfMember == [g \in GeometrySet |-> classify(g)]

\* the rows of the table by the group their geometry classifies into
HorizontalRows ==
    {i \in 1..data.index : GroupOfMember[data.columns[GEOMETRY][i]] = Horizontal}

VerticalRows ==
    {i \in 1..data.index : GroupOfMember[data.columns[GEOMETRY][i]] = Vertical}

RECURSIVE SumOver(_, _)
SumOver(r, rows) ==
    IF rows = {} THEN Float(0, 1)
    ELSE LET i == CHOOSE k \in rows : TRUE
         IN  FloatAdd(r[i], SumOver(r, rows \ {i}))

\* the arithmetic mean of r over the rows; of no row it is undefined (nan)
MeanOver(r, rows) ==
    IF rows = {} THEN nan
    ELSE FloatDiv(SumOver(r, rows), Float(Cardinality(rows), 1))

Defined(r, rows) == {i \in rows : ~IsNan(r[i])}

HasMandatory == Columns_mandatory \subseteq DOMAIN data.columns

\* every cell of the Geometry column holds a Geometry
HasGeometries ==
    \A i \in 1..data.index : data.columns[GEOMETRY][i] \in GeometrySet

\* C2 as claimed: (Rh, Rv) are the arithmetic means of the resistances of
\* exactly the rows classified Horizontal and of exactly the rows classified
\* Vertical, and every row contributes to exactly one of the two means.
C2_AsClaimed ==
    means # None =>
        /\ means.Rh = MeanOver(data.columns[RESISTANCE], HorizontalRows)
        /\ means.Rv = MeanOver(data.columns[RESISTANCE], VerticalRows)
        /\ HorizontalRows \cap VerticalRows = {}
        /\ HorizontalRows \cup VerticalRows = 1..data.index

\* C2 amended: Rh is the arithmetic mean of the resistances of exactly those
\* rows classified Horizontal whose resistance is not nan, Rv that of exactly
\* those rows classified Vertical whose resistance is not nan (nan when there
\* is no such row); every row is in exactly one of the two groups, and a row
\* whose resistance is nan (voltage 0 over current 0) contributes to neither
\* mean.
C2_GroupMeans ==
    means # None =>
        /\ means.Rh = MeanOver(data.columns[RESISTANCE],
                               Defined(data.columns[RESISTANCE], HorizontalRows))
        /\ means.Rv = MeanOver(data.columns[RESISTANCE],
                               Defined(data.columns[RESISTANCE], VerticalRows))
        /\ HorizontalRows \cap VerticalRows = {}
        /\ HorizontalRows \cup VerticalRows = 1..data.index

\* one row in each group, each mean that row's resistance
C2_Witness ==
    /\ call.op = "analyze"
    /\ means # None
    /\ HorizontalRows = {1}
    /\ VerticalRows = {2}
    /\ means.Rh = Float(1, 2)
    /\ means.Rv = Float(1, 1)

\* the rows carrying '1234' or '2143'
Rows1234And2143 ==
    {i \in 1..data.index :
        data.columns[GEOMETRY][i] \in {Member("R1234"), Member("R2143")}}

\* C6 as claimed: '1234' and '2143' are both classified Horizontal, and the
\* resistances of their rows are averaged into Rh and not into Rv.
C6_AsClaimed ==
    (means # None /\ Rows1234And2143 # {}) =>
        /\ classify(Member("R1234")) = Horizontal
        /\ classify(Member("R2143")) = Horizontal
        /\ Rows1234And2143 \subseteq HorizontalRows
        /\ Rows1234And2143 = 1..data.index =>
               /\ means.Rh = MeanOver(data.columns[RESISTANCE],
                                      Defined(data.columns[RESISTANCE],
                                              Rows1234And2143))
               /\ means.Rv = nan

\* C6 amended: '1234' and '2143' are both classified Vertical, and the
\* resistances of their rows are averaged into Rv (the second returned
\* value) and not into Rh.
C6_BothVertical ==
    /\ classify(Member("R1234")) = Vertical
    /\ classify(Member("R2143")) = Vertical
    /\ means # None =>
           /\ Rows1234And2143 \subseteq VerticalRows
           /\ \A i \in Rows1234And2143 : ~Mask(data)[i]
    /\ (means # None /\ Rows1234And2143 = 1..data.index) =>
           /\ means.Rv = MeanOver(data.columns[RESISTANCE],
                                  Defined(data.columns[RESISTANCE], Rows1234And2143))
           /\ means.Rh = nan

C6_Witness ==
    /\ call.op = "analyze"
    /\ means # None
    /\ data.index = 2
    /\ data.columns[GEOMETRY] = <<Member("R1234"), Member("R2143")>>
    /\ means.Rv = Float(3, 4)
    /\ means.Rh = nan

\* every row of the table classifies into the same group
OneGroupEmpty == HorizontalRows = {} \/ VerticalRows = {}

\* C7 as claimed: when every row classifies into the same group,
\* Measurement.analyze fails with an error instead of returning (Rh, Rv).
C7_AsClaimed ==
    (call.op = "analyze" /\ HasMandatory /\ HasGeometries /\ OneGroupEmpty) =>
        IsRaised(ret)

\* C7 amended: when every row classifies into the same group,
\* Measurement.analyze raises nothing: it returns the pair (Rh, Rv) with nan
\* as the mean of the empty group.
C7_EmptyGroupIsNan ==
    (call.op = "analyze" /\ HasMandatory /\ HasGeometries) =>
        /\ ~IsRaised(ret)
        /\ ret = means
        /\ HorizontalRows = {} => ret.Rh = nan
        /\ VerticalRows = {} => ret.Rv = nan

C7_Witness ==
    /\ call.op = "analyze"
    /\ HasMandatory
    /\ HasGeometries
    /\ VerticalRows = {}
    /\ ~IsRaised(ret)
    /\ ret.Rv = nan
    /\ ret.Rh = Float(1, 2)

\* C8: on a table that lacks a mandatory column, a call of process or of
\* Measurement(data).analyze() raises ValueError, produces no (Rh, Rv) and
\* leaves the table exactly as it was.
C8_MissingColumn ==
    [][(~HasMandatory /\ call'.op \in {"process", "analyze"}) =>
           /\ ret' = Raise("ValueError")
           /\ means' = None
           /\ data' = data
           /\ newton' = newton]_vars

C8_Witness ==
    /\ call.op = "process"
    /\ VOLTAGE \notin DOMAIN data.columns
    /\ RESISTANCE \notin DOMAIN data.columns
    /\ ret = Raise("ValueError")

\* the arguments newton got in the call that produced means
ArgsOfMeans ==
    NewtonArgs(means.Rh, means.Rv, Solve_square(means.Rh, means.Rv))

\* C4: process returns one record with exactly the five fields
\* sheet_resistance, ratio_resistance, sheet_conductance, resistivity,
\* conductivity, in that order; resistivity and conductivity are nan if and
\* only if thickness is None, and the first three fields are computed in
\* both cases.
C4_FiveFields ==
    /\ (call.op = "process" /\ ~IsRaised(ret)) =>
           /\ ret.index = <<"sheet_resistance", "ratio_resistance",
                            "sheet_conductance", "resistivity", "conductivity">>
           /\ Len(ret.data) = 5
           /\ IsNan(ret.data[4]) <=> call.thickness = None
           /\ IsNan(ret.data[5]) <=> call.thickness = None
           /\ ret.data[1] \in NewtonRoots \cup {Solve_square(means.Rh, means.Rv)}
           /\ ret.data[2] \in {FloatDiv(means.Rh, means.Rv),
                               FloatDiv(means.Rv, means.Rh)}
           /\ ret.data[3] = FloatDiv(Float(1, 1), ret.data[1])
    /\ call.op = "process(None)" =>
           /\ ret.index = <<"sheet_resistance", "ratio_resistance",
                            "sheet_conductance", "resistivity", "conductivity">>
           /\ Len(ret.data) = 5

C4_Witness ==
    /\ call.op = "process"
    /\ ~IsRaised(ret)
    /\ call.thickness = Float(2, 1)
    /\ ret.data = <<Float(3, 1), Float(2, 1), Float(1, 3), Float(6, 1),
                    Float(1, 6)>>

\* C9: when newton does not converge (raises RuntimeError), process raises
\* that same error: it returns no record, neither the seed nor an iterate
\* stands in for sheet_resistance, and newton was given no other seed than
\* Solve.square's (no second attempt).
C9_NonConvergencePropagates ==
    (call.op = "process" /\ means # None) =>
        /\ \E e \in newton : e.args = ArgsOfMeans
        /\ \A e \in newton :
               (e.args = ArgsOfMeans /\ e.outcome = Raise("RuntimeError")) =>
                   ret = Raise("RuntimeError")
        /\ \A e \in newton :
               (e.args = ArgsOfMeans /\ e.outcome # Raise("RuntimeError")) =>
                   (~IsRaised(ret) /\ ret.data[1] = e.outcome)
        /\ \A e \in newton : e.args[1] = Solve_square(e.args[2], e.args[3])

\* newton fails on finite means
C9_Witness ==
    /\ call.op = "process"
    /\ means # None
    /\ means.Rh = Float(1, 2)
    /\ means.Rv = Float(1, 1)
    /\ ret = Raise("RuntimeError")

\* the table of the Geometry, Voltage and Current rows of df, without a
\* resistance column
Stripped(df) ==
    [df EXCEPT !.columns = [c \in Columns_mandatory |-> df.columns[c]]]

\* C15: the output does not depend on what the resistance column held: a
\* table, with the column filled in or without it, gives the (Rh, Rv), the
\* process record and the table after the call that the table of the same
\* Geometry, Voltage and Current rows without the column gives, and after
\* the call every row's resistance is that row's Voltage / Current.
C15_ResistanceContentIgnored ==
    [][(HasMandatory /\ call'.op \in {"process", "analyze"}) =>
           /\ \A analyzed \in {Measurement_analyze(Stripped(data))} :
                  /\ analyzed.data = data'
                  /\ IsRaised(analyzed.ret) => ret' = analyzed.ret
                  /\ ~IsRaised(analyzed.ret) => means' = analyzed.ret
                  /\ call'.op = "analyze" => ret' = analyzed.ret
                  /\ (call'.op = "process" /\ ~IsRaised(analyzed.ret)) =>
                         \A e \in newton' :
                             e.args = NewtonArgs(analyzed.ret.Rh, analyzed.ret.Rv,
                                                 Solve_square(analyzed.ret.Rh,
                                                              analyzed.ret.Rv))
                                 => ret' = ProcessReturn(
                                        Solve_analyze(analyzed.ret.Rh,
                                                      analyzed.ret.Rv, e.outcome),
                                        call'.thickness)
           /\ \A k \in 1..data.index :
                  data'.columns[RESISTANCE][k] =
                      FloatDiv(data.columns[VOLTAGE][k], data.columns[CURRENT][k])
      ]_vars

\* a table handed over with 7 in both rows of the resistance column
C15_Witness ==
    /\ call.op = "process"
    /\ HasMandatory
    /\ call.given = [column |-> <<StaleResistance, StaleResistance>>]
    /\ data.columns[RESISTANCE] = <<Float(1, 2), Float(1, 1)>>
    /\ means = [Rh |-> Float(1, 2), Rv |-> Float(1, 1)]
    /\ ~IsRaised(ret)

\* C27: process is idempotent on a table: a call of process on the table
\* as a call of process left it, with the same thickness, returns the
\* record (or raises the exception) of that earlier call, and leaves the
\* table, its resistance column included, and (Rh, Rv) as they were.
C27_ProcessIdempotent ==
    [][(call.op = "process" /\ call'.op = "process"
            /\ call'.thickness = call.thickness) =>
           /\ ret' = ret
           /\ data' = data
           /\ means' = means
      ]_vars

\* a second call: the table came with the resistances the first call wrote
C27_Witness ==
    /\ call.op = "process"
    /\ call.thickness = Float(2, 1)
    /\ HasMandatory
    /\ call.given = [column |-> <<Float(1, 2), Float(1, 1)>>]
    /\ data.columns[RESISTANCE] = <<Float(1, 2), Float(1, 1)>>
    /\ data.columns[GEOMETRY] = <<Member("R2341"), Member("R1234")>>
    /\ ~IsRaised(ret)

\* Voltage / Current, row by row
Quotients ==
    [k \in 1..data.index |->
        FloatDiv(data.columns[VOLTAGE][k], data.columns[CURRENT][k])]

AllDefined(column) == \A k \in DOMAIN column : ~IsNan(column[k])

\* C16 as claimed: the resistances are recomputed by Ohm's law only when the
\* column is absent or holds an undefined value in some row; when every row
\* carries a defined resistance the supplied values are left as they are
\* and are the ones averaged into (Rh, Rv).
C16_AsClaimed ==
    (call.op \in {"process", "analyze"} /\ means # None
        /\ call.given # None /\ AllDefined(call.given.column)) =>
        /\ data.columns[RESISTANCE] = call.given.column
        /\ means.Rh = MeanOver(call.given.column, HorizontalRows)
        /\ means.Rv = MeanOver(call.given.column, VerticalRows)

\* C16 amended: the resistances are recomputed by Ohm's law in every call,
\* whether the column is absent, holds an undefined value in some row or
\* carries a defined resistance in every row: the supplied values are
\* overwritten with Voltage / Current and it is these quotients, never the
\* supplied values, that are averaged into (Rh, Rv).
C16_AlwaysRecomputed ==
    (call.op \in {"process", "analyze"} /\ means # None) =>
        /\ data.columns[RESISTANCE] = Quotients
        /\ means.Rh = MeanOver(Quotients, Defined(Quotients, HorizontalRows))
        /\ means.Rv = MeanOver(Quotients, Defined(Quotients, VerticalRows))

\* a defined resistance in the only row, overwritten
C16_Witness ==
    /\ call.op = "analyze"
    /\ HasMandatory
    /\ call.given = [column |-> <<StaleResistance>>]
    /\ data.columns[GEOMETRY] = <<Member("R2341")>>
    /\ data.columns[RESISTANCE] = <<Float(1, 2)>>
    /\ means.Rh = Float(1, 2)

\* C17: a call of process or of Measurement.analyze changes nothing in the
\* caller's table but the resistance column: the number of rows, their order
\* and every Geometry, Voltage and Current value are after the call what they
\* were before it.
C17_OnlyResistanceWritten ==
    [][call'.op \in {"process", "analyze"} =>
           /\ data'.index = data.index
           /\ DOMAIN data.columns \subseteq DOMAIN data'.columns
           /\ DOMAIN data'.columns \subseteq DOMAIN data.columns \cup {RESISTANCE}
           /\ \A c \in DOMAIN data.columns \ {RESISTANCE} :
                  data'.columns[c] = data.columns[c]
           /\ \A c \in DOMAIN data'.columns : Len(data'.columns[c]) = data.index
      ]_vars

\* the resistances written, the rows as they were handed over
C17_Witness ==
    /\ call.op = "analyze"
    /\ HasMandatory
    /\ call.given = None
    /\ data.index = 2
    /\ data.columns[GEOMETRY] = <<Member("R2341"), Member("R1234")>>
    /\ data.columns[VOLTAGE] = <<Float(1, 1), Float(2, 1)>>
    /\ data.columns[CURRENT] = <<Float(2, 1), Float(2, 1)>>
    /\ data.columns[RESISTANCE] = <<Float(1, 2), Float(1, 1)>>

\* x * y = 1, of finite numbers
IsReciprocal(x, y) ==
    /\ IsFinite(x) /\ IsFinite(y)
    /\ x.n * y.n = x.d * y.d
    /\ Vdp(x) + Vdp(y) = 0

\* z = x * y, of finite numbers
IsProduct(z, x, y) ==
    /\ IsFinite(x) /\ IsFinite(y) /\ IsFinite(z)
    /\ z.n * x.d * y.d = x.n * y.n * z.d
    /\ Vdp(z) = Vdp(x) + Vdp(y)

\* C14: in the record process returns, sheet_conductance is
\* 1 / sheet_resistance always, and when a thickness is supplied resistivity
\* is sheet_resistance * thickness and conductivity is 1 / resistivity, which
\* is sheet_conductance / thickness.
C14_DerivedFields ==
    (call.op = "process" /\ ~IsRaised(ret)) =>
        /\ IsReciprocal(ret.data[3], ret.data[1])
        /\ call.thickness # None =>
               /\ IsProduct(ret.data[4], ret.data[1], call.thickness)
               /\ IsReciprocal(ret.data[5], ret.data[4])
               /\ IsProduct(ret.data[3], ret.data[5], call.thickness)

C14_Witness ==
    /\ call.op = "process"
    /\ ~IsRaised(ret)
    /\ call.thickness = Float(2, 1)
    /\ ret.data[1] = Float(9, 2)
    /\ ret.data[3] = Float(2, 9)
    /\ ret.data[4] = Float(9, 1)
    /\ ret.data[5] = Float(1, 9)

\* the rows measured with no current
ZeroCurrentRows ==
    {k \in 1..data.index : data.columns[CURRENT][k] = Float(0, 1)}

\* the rows of the group that row k is classified into
GroupOf(k) == IF k \in HorizontalRows THEN HorizontalRows ELSE VerticalRows

\* the mean analyze returned for the group that row k is classified into
MeanOfGroupOf(k) == IF k \in HorizontalRows THEN means.Rh ELSE means.Rv

\* what a row of zero current gets for a resistance
ZeroCurrentResistance(k) ==
    IF data.columns[VOLTAGE][k] = Float(0, 1) THEN nan
    ELSE IF data.columns[VOLTAGE][k].n > 0 THEN inf
    ELSE Float(-1, 0)

LabelRows == {i \in 1..data.index : IsStr(data.columns[GEOMETRY][i])}

\* the table with every label replaced by the Geometry it parses to
Parsed(df) ==
    [df EXCEPT !.columns[GEOMETRY] =
        [i \in 1..df.index |->
            IF IsStr(df.columns[GEOMETRY][i])
            THEN Geometry_parse(df.columns[GEOMETRY][i].str)
            ELSE df.columns[GEOMETRY][i]]]

\* C18 as claimed: process accepts a table whose Geometry column holds
\* label strings ('1234', 'horizontal') as well as one holding Geometry
\* values, and a row given as a string is classified into the group of the
\* Geometry of that label.
C18_AsClaimed ==
    (call.op \in {"process", "analyze"} /\ LabelRows # {}) =>
        /\ ret # Raise("AttributeError")
        /\ means = GroupMeans(Parsed(data))

\* C18 amended: process and Measurement.analyze accept Geometry values only.
\* A table with a label string in some cell of the Geometry column makes the
\* call raise AttributeError (a str has no is_horizontal): nothing parses the
\* label, no (Rh, Rv) and no record is produced, and the resistance column
\* has been written by then.  A table holding Geometry values in every cell
\* raises no such error.
C18_LabelsRefused ==
    /\ (call.op \in {"process", "analyze"} /\ LabelRows # {}) =>
           /\ ret = Raise("AttributeError")
           /\ means = None
           /\ data.columns[RESISTANCE] = Quotients
    /\ (call.op \in {"process", "analyze"} /\ LabelRows = {}) =>
           /\ ret # Raise("AttributeError")
           /\ means = GroupMeans(data)

\* the label '1234' next to a Geometry
C18_Witness ==
    /\ call.op = "process"
    /\ data.index = 2
    /\ data.columns[GEOMETRY] = <<Str(<<"1", "2", "3", "4">>), Member("R2341")>>
    /\ data.columns[RESISTANCE] = <<Float(1, 2), Float(1, 1)>>
    /\ ret = Raise("AttributeError")

\* C28: within Measurement.analyze the resistance column is written for all
\* rows before any geometry is classified, and nothing is rolled back: on
\* a table with a Geometry cell that cannot be classified the call raises,
\* returns no (Rh, Rv) and no record, never reaches the solver, and leaves
\* the caller's table with the resistance column added, or overwritten,
\* holding Voltage / Current in every row, the other columns as they were.
C28_WrittenBeforeClassified ==
    [][(call'.op \in {"process", "analyze"}
            /\ \E k \in 1..data.index : IsStr(data.columns[GEOMETRY][k])) =>
           /\ ret' = Raise("AttributeError")
           /\ means' = None
           /\ newton' = newton
           /\ data'.index = data.index
           /\ DOMAIN data'.columns = Columns_mandatory \cup {RESISTANCE}
           /\ \A c \in Columns_mandatory : data'.columns[c] = data.columns[c]
           /\ \A k \in 1..data.index :
                  data'.columns[RESISTANCE][k] =
                      FloatDiv(data.columns[VOLTAGE][k], data.columns[CURRENT][k])
      ]_vars

\* a table of labels handed over with 7 in both rows of the resistance
\* column: the call fails and the column holds 1/2 and 1
C28_Witness ==
    /\ call.op = "analyze"
    /\ call.given = [column |-> <<StaleResistance, StaleResistance>>]
    /\ LabelRows = {1, 2}
    /\ data.columns[VOLTAGE] = <<Float(1, 1), Float(2, 1)>>
    /\ data.columns[CURRENT] = <<Float(2, 1), Float(2, 1)>>
    /\ data.columns[RESISTANCE] = <<Float(1, 2), Float(1, 1)>>
    /\ ret = Raise("AttributeError")
    /\ means = None

----------------------------------------------------------------------------
(* Solve: the claims *)

FloatMax(x, y) == IF FloatLess(x, y) THEN y ELSE x

FloatMin(x, y) == IF FloatLess(x, y) THEN x ELSE y

TimesVdp(R) == [n |-> R.n, d |-> R.d, vdp |-> 1]

\* pi / ln(2) = 4.53236... lies between these two fractions, for
\* 3.14159 < pi < 3.14160 and 0.69314 < ln(2) < 0.69315
VdpBelow == Float(314159, 69315)

VdpAbove == Float(314160, 69314)

\* a fraction below and a fraction above x = q * pi / ln(2), q positive
Below(x) == FloatMul(Fraction(x), VdpBelow)

Above(x) == FloatMul(Fraction(x), VdpAbove)

\* x = q * pi / ln(2) is about the integer v: v is the integer nearest to x
IsAbout(x, v) ==
    /\ FloatLess(Float(2 * v - 1, 2), Below(x))
    /\ FloatLess(Above(x), Float(2 * v + 1, 2))

\* C20 as claimed: when Rh = Rv > 0, Solve.square(Rh, Rh) is Rh * pi / ln(2)
\* and Solve.analyze(Rh, Rh) returns that value as sheet_resistance, about
\* 4531 for Rh = 1000, with ratio_resistance exactly 1.
C20_AsClaimed ==
    /\ (call.op = "Solve.square" /\ Positive(call.Rh) /\ call.Rh = call.Rv) =>
           ret = TimesVdp(call.Rh)
    /\ (call.op = "Solve.analyze" /\ Positive(call.Rh) /\ call.Rh = call.Rv) =>
           /\ ~IsRaised(ret)
           /\ ret.sheet_resistance = TimesVdp(call.Rh)
           /\ ret.ratio_resistance = Float(1, 1)
           /\ call.Rh = Float(1000, 1) => IsAbout(ret.sheet_resistance, 4531)

\* C20 amended: when Rh = Rv > 0, Solve.square(Rh, Rh) is Rh * pi / ln(2)
\* and Solve.analyze(Rh, Rh) returns that value as sheet_resistance, about
\* 4532 for Rh = 1000 (4532.36), with ratio_resistance exactly 1.
C20_SymmetricCase ==
    /\ (call.op = "Solve.square" /\ Positive(call.Rh) /\ call.Rh = call.Rv) =>
           ret = TimesVdp(call.Rh)
    /\ (call.op = "Solve.analyze" /\ Positive(call.Rh) /\ call.Rh = call.Rv) =>
           /\ ~IsRaised(ret)
           /\ ret.sheet_resistance = TimesVdp(call.Rh)
           /\ ret.ratio_resistance = Float(1, 1)
           /\ call.Rh = Float(1000, 1) => IsAbout(ret.sheet_resistance, 4532)

C20_Witness ==
    /\ call.op = "Solve.analyze"
    /\ call.Rh = Float(1000, 1)
    /\ call.Rv = Float(1000, 1)
    /\ ret = [sheet_resistance |-> [n |-> 1000, d |-> 1, vdp |-> 1],
              ratio_resistance |-> Float(1, 1)]

----------------------------------------------------------------------------
(* the batch: the claims *)

\* the workers whose call has returned or raised
Done == {w \in Workers : threads[w].pc = "done"}

\* the workers of calls of process, each on a table of its own
OnDistinctTables ==
    /\ \A w \in Workers : threads[w].op = "process"
    /\ \A v \in Workers, w \in Workers :
           v # w => threads[v].table # threads[w].table

\* what the call process(given, thickness) made on its own returns, newton
\* answering as it has answered; the raised exception when it raises
RecordAlone(given, thickness) ==
    IF IsRaised(Measurement_init(given)) THEN {Measurement_init(given)}
    ELSE LET alone == Measurement_analyze(given)
         IN  {ProcessReturn(Solve_analyze(alone.ret.Rh, alone.ret.Rv, e.outcome),
                            thickness) :
                 e \in {e \in newton :
                           e.args = NewtonArgs(alone.ret.Rh, alone.ret.Rv,
                                               Solve_square(alone.ret.Rh,
                                                            alone.ret.Rv))}}

\* the table the call process(given, thickness) made on its own leaves
TableAlone(given) ==
    IF IsRaised(Measurement_init(given)) THEN given
    ELSE Measurement_analyze(given).data

\* C22: there is no dependency across the tables of a batch: with every
\* table touched by exactly one worker and no synchronization, in every
\* interleaving of the workers' steps a table is as it was handed over
\* until its worker writes it, and the worker's call returns the record,
\* and leaves the table, that process(table, thickness) returns and leaves
\* when run by itself as in the loop of experiment.process, whatever the
\* other worker has done by then.
C22_NoCrossTableDependency ==
    OnDistinctTables =>
        \A w \in Workers :
            /\ threads[w].pc \in {"called", "ohm", "lookup", "assign"} =>
                   Table(w) = threads[w].given
            /\ threads[w].pc \in {"classify", "Rh", "Rv", "solve"} =>
                   Table(w) = TableAlone(threads[w].given)
            /\ w \in Done =>
                   /\ Table(w) = TableAlone(threads[w].given)
                   /\ threads[w].ret \in
                          RecordAlone(threads[w].given, threads[w].thickness)
                   /\ Cardinality(RecordAlone(threads[w].given,
                                              threads[w].thickness)) = 1

\* worker A has its record while worker B stands between its two means
C22_Witness ==
    /\ OnDistinctTables
    /\ threads["A"].pc = "done"
    /\ ~IsRaised(threads["A"].ret)
    /\ threads["B"].pc = "Rv"
    /\ threads["A"].given # threads["B"].given
    /\ threads["A"].given.columns[VOLTAGE] # threads["B"].given.columns[VOLTAGE]

\* two workers analysing one table
OnOneTable ==
    /\ Len(data_list) = 1
    /\ \A w \in Workers : threads[w].op = "analyze"
    /\ Columns_mandatory \subseteq DOMAIN data_list[1].columns

\* the workers whose lookup did not find the label and who have gone
\* through the assignment
InsertedByLookup ==
    {w \in Workers :
        /\ ~threads[w].found
        /\ threads[w].pc \in {"classify", "Rh", "Rv", "done"}}

\* the table holds the label twice, or an insertion was refused
RaceBit ==
    \/ SECOND_RESISTANCE \in DOMAIN data_list[1].columns
    \/ \E w \in Workers : threads[w].ret = Raise("ValueError")

============================================================================
